---------------------------- MODULE Spec2Model ----------------------------
(***************************************************************************)
(* Model of the water-monitoring streamlit frontend                        *)
(* (app/water-monitoring.py) and of its topology loader (app/config.py).   *)
(*                                                                         *)
(* water-monitoring.py is a streamlit script: the whole file, module level *)
(* setup included, is executed from top to bottom for every page load and  *)
(* for every widget interaction, and st.button returns True only in the    *)
(* run that its click started.  One script run is modelled by the steps    *)
(* Bootstrap, Fetch, Inputs, RenderRoom, SendPressed / SendNotPressed, in  *)
(* the file's order; Load and Press start a run.                           *)
(*                                                                         *)
(* Numbers are meter readings in units of the widgets' step (0.001).  An   *)
(* optional value is None (the empty sequence) or Some(v) (a sequence of   *)
(* one number), Python's None and a float.                                 *)
(***************************************************************************)
EXTENDS Integers, Sequences, FiniteSets, TLC

VARIABLES
    pc,               \* position of the script run
    idx,              \* index into ROOMS of the render loop (line 209)
    runs,             \* script runs started so far
    pressed,          \* the Send button whose click started this run, or "none"
    dbs,              \* store: names of its databases
    points,           \* store: last value of each field of each measurement of DB_NAME
    client,           \* the InfluxDBClient of this run: its selected database
    listings,         \* calls of client.get_list_database() so far
    creates,          \* calls of client.create_database() so far
    created_now,      \* this run's bootstrap called create_database
    listed,           \* what this run's get_list_database() returned
    responses,        \* the store's behaviour for the queries of this run's fetch
    latest_readings,  \* line 193: <<>> before the fetch, <<table>> after it
    date,             \* line 200
    time,             \* line 204
    hot,              \* script variable hot of the room being rendered
    cold,             \* script variable cold of the room being rendered
    rendered,         \* rooms whose widgets were all rendered in this run
    buttons,          \* rooms whose Send button was reached in this run
    entered,          \* the hot and cold handed to WaterReading: <<>> before the call
    data,             \* WaterReading.data of this run's submission (a list of points)
    writes,           \* the lists handed to client.write_points in this run
    wresult,          \* the store's outcome of this run's write, or "none"
    notices,          \* "Data logged." notices shown in this run
    display_raised,   \* display() raised in this run (caught inside write_to_database)
    DEBUG,            \* line 40
    offsets,          \* the configured calibration offsets (MeterConfig.offset)
    configfile,       \* the configuration source handed to get_config
    config            \* what get_config made of it: <<>> before the call

vars == <<pc, idx, runs, pressed, dbs, points, client, listings, creates,
          created_now, listed, responses, latest_readings, date, time, hot,
          cold, rendered, buttons, entered, data, writes, wresult, notices,
          display_raised, DEBUG, offsets, configfile, config>>

-----------------------------------------------------------------------------
(* Bounds of the model *)

\* script runs (page loads and button presses) explored
MaxRuns == 2
\* readings range over 0 .. MaxValue
MaxValue == 2
\* calibration offsets range over 0 .. MaxOffset
MaxOffset == 1

Values == 0 .. MaxValue
OffsetValues == 0 .. MaxOffset
Dates == {1, 2}
Times == {1}

None == <<>>
Some(v) == <<v>>

-----------------------------------------------------------------------------
(* Setup, water-monitoring.py lines 23-54 *)

ROOMS == <<"bathroom", "kitchen">>
DB_NAME == "water-monitoring"
TIMEZONE == "Europe/Berlin"

\* the room list and the meter list written out in get_latest_readings (line 97)
FetchRooms == <<"bathroom", "kitchen">>
FetchMeters == <<"hot", "cold">>

Range(s) == {s[i] : i \in 1 .. Len(s)}
RoomNames == Range(ROOMS)
MeterNames == {"hot", "cold"}

\* what client.query / client.write_points can do
QueryBehaviours == {"answers", "connection", "timeout", "other"}
WriteBehaviours == {"ack", "rejected", "timeout", "other"}


-----------------------------------------------------------------------------
(* The store as the script sees it *)

\* client.query("SELECT last(<field>) FROM <measurement>").get_points(): the
\* points of the answer, none when the field holds no value or when the client
\* has no database selected
get_points(cl, room, temperature) ==
    IF cl = <<>> \/ cl[1].database # DB_NAME \/ DB_NAME \notin dbs THEN <<>>
    ELSE IF points[room][temperature] = None THEN <<>>
    ELSE <<[last |-> points[room][temperature]]>>

\* the store after it accepted the points of one write_points call: a field
\* whose value is None is not part of the line sent and leaves the series as
\* it was
store_write(pts, lst) ==
    [r \in RoomNames |-> [m \in MeterNames |->
        IF \E i \in 1 .. Len(lst) :
              lst[i].measurement = r /\ lst[i].fields[m] # None
        THEN (CHOOSE f \in {lst[i].fields[m] : i \in {j \in 1 .. Len(lst) :
                 lst[j].measurement = r /\ lst[j].fields[m] # None}} : TRUE)
        ELSE pts[r][m]]]

-----------------------------------------------------------------------------
(* query_last, lines 57-76.  The result is [raised, value]: raised says that
   an exception left the function. *)

Return(v) == [raised |-> FALSE, value |-> v]
Raise == [raised |-> TRUE, value |-> None]

\* line 67: get_points() is a generator object, which is true in Python
\* whether or not it will yield a point
Truthy(iresponse) == TRUE

\* query_last with a numeric fallback: 0 where the code yields None
query_last_zero(cl, room, temperature, behaviour) ==
    IF behaviour = "answers" /\ Len(get_points(cl, room, temperature)) > 0
    THEN Return(get_points(cl, room, temperature)[1].last)
    ELSE Return(Some(0))

query_last(cl, room, temperature, behaviour) ==
    IF behaviour = "answers"
    THEN LET iresponse == get_points(cl, room, temperature)
         IN  IF ~Truthy(iresponse)
             THEN Return(None)              \* lines 68-69, caught at line 71
             ELSE IF Len(iresponse) = 0
             THEN Return(None)              \* line 70: IndexError, caught at line 75
             ELSE Return(iresponse[1].last) \* line 70
    ELSE IF behaviour = "connection"
    THEN Return(None)                       \* lines 71-72
    ELSE IF behaviour = "timeout"
    THEN Return(None)                       \* lines 73-74
    ELSE Return(None)                       \* lines 75-76

\* get_latest_readings that asks every room's meters of the first room's
\* measurement
get_latest_readings_one_room(cl, behaviours) ==
    Return([room \in Range(FetchRooms) |->
              [temp \in Range(FetchMeters) |->
                  query_last(cl, FetchRooms[1], temp,
                             behaviours[FetchRooms[1]][temp]).value]])

(* get_latest_readings, lines 79-98: a dict comprehension over the literal
   room and meter lists; an exception of one query_last would leave it *)
get_latest_readings(cl, behaviours) ==
    LET q(room, temp) == query_last(cl, room, temp, behaviours[room][temp])
    IN  IF \E room \in Range(FetchRooms), temp \in Range(FetchMeters) :
              q(room, temp).raised
        THEN Raise
        ELSE Return([room \in Range(FetchRooms) |->
                        [temp \in Range(FetchMeters) |-> q(room, temp).value]])

-----------------------------------------------------------------------------
(* class WaterReading, lines 101-167 *)

\* lines 120-121: the naive date and time, made aware in TIMEZONE
isodate(d, t) == [date |-> d, time |-> t, tzinfo |-> TIMEZONE]

\* __init__ without lines 124-125: cold is stored as entered
WaterReading_cold_kept(d, t, room, h, c) ==
    <<[measurement |-> room,
       time |-> isodate(d, t),
       fields |-> [m \in MeterNames |->
                     IF m = "hot" THEN (IF h = Some(0) THEN None ELSE h) ELSE c]]>>

\* __init__, lines 107-129: the value of self.data
WaterReading(d, t, room, h, c) ==
    LET hot1 == IF h = Some(0) THEN None ELSE h      \* lines 122-123
        cold1 == IF c = Some(0) THEN None ELSE c     \* lines 124-125
    IN  <<[measurement |-> room,
           time |-> isodate(d, t),
           fields |-> [m \in MeterNames |-> IF m = "hot" THEN hot1 ELSE cold1]]>>

\* display, lines 131-138: the notice first (st.info of a constant string,
\* taken not to fail), then, under DEBUG, the st.write calls, which st_fails
\* lets fail
display(st_fails) ==
    [notices |-> 1, raised |-> DEBUG /\ st_fails]

\* write_to_database without the check of lines 158-160: display() follows
\* every write_points call that returns
write_to_database_unchecked(self_data, behaviour, st_fails) ==
    IF behaviour \in {"ack", "rejected"}
    THEN [handed |-> <<self_data>>, notices |-> 1,
          display_raised |-> DEBUG /\ st_fails, raised |-> FALSE]
    ELSE [handed |-> <<self_data>>, notices |-> 0,
          display_raised |-> FALSE, raised |-> FALSE]

\* write_to_database, lines 140-167: [handed, notices, display_raised, raised]
write_to_database(self_data, behaviour, st_fails) ==
    IF behaviour = "ack"                       \* line 156 returned True
    THEN LET d == display(st_fails)            \* line 161; a raise is caught at line 166
         IN  [handed |-> <<self_data>>, notices |-> d.notices,
              display_raised |-> d.raised, raised |-> FALSE]
    ELSE IF behaviour = "rejected"             \* lines 158-160, caught at line 162
    THEN [handed |-> <<self_data>>, notices |-> 0,
          display_raised |-> FALSE, raised |-> FALSE]
    ELSE IF behaviour = "timeout"              \* line 156 raised, caught at line 164
    THEN [handed |-> <<self_data>>, notices |-> 0,
          display_raised |-> FALSE, raised |-> FALSE]
    ELSE [handed |-> <<self_data>>, notices |-> 0, \* caught at line 166
          display_raised |-> FALSE, raised |-> FALSE]

-----------------------------------------------------------------------------
(* The page, lines 193-245 *)

\* lines 219 and 233: the subtraction of two optional numbers
Minus(a, b) ==
    IF a = None \/ b = None THEN Raise       \* TypeError
    ELSE Return(Some(a[1] - b[1]))

\* st.number_input, lines 221 and 235: the widget's value is its seed or what
\* the user typed
number_input(value) == {value} \cup {Some(v) : v \in Values}

-----------------------------------------------------------------------------
(* One script run *)

\* the defaults a meter gets without an offset entry (config.py line 15)
DefaultOffsets == [r \in RoomNames |-> [m \in MeterNames |-> 0]]

NoFile == [suffix |-> ".yaml", doc |-> [tag |-> "invalid"]]

\* what the store may hold when the frontend starts: values of other origin
\* too, a stored 0 included
SeedValues == {None, Some(0), Some(1)}

\* no script has run yet
Quiet ==
    /\ idx = 0
    /\ runs = 0
    /\ client = <<>>
    /\ listings = 0
    /\ creates = 0
    /\ created_now = FALSE
    /\ listed = {}
    /\ responses = <<>>
    /\ latest_readings = <<>>
    /\ rendered = {}
    /\ buttons = {}
    /\ entered = <<>>
    /\ data = <<>>
    /\ writes = <<>>
    /\ wresult = "none"
    /\ notices = 0
    /\ display_raised = FALSE

Init ==
    /\ pc = "idle"
    /\ Quiet
    /\ pressed = "none"
    /\ dbs \in {{"_internal"}, {"_internal", DB_NAME}}
    /\ points \in [RoomNames -> [MeterNames -> SeedValues]]
    /\ DB_NAME \notin dbs => \A r \in RoomNames, m \in MeterNames : points[r][m] = None
    /\ date = 0
    /\ time = 0
    /\ hot = None
    /\ cold = None
    /\ DEBUG \in BOOLEAN
    /\ offsets = DefaultOffsets
    /\ configfile = NoFile
    /\ config = <<>>

\* a new run of the script: nothing of the previous run's variables is left
StartRun(p) ==
    /\ runs < MaxRuns
    /\ runs' = runs + 1
    /\ pressed' = p
    /\ pc' = "bootstrap"
    /\ idx' = 0
    /\ client' = <<>>
    /\ created_now' = FALSE
    /\ listed' = {}
    /\ responses' = <<>>
    /\ latest_readings' = <<>>
    /\ date' = 0
    /\ time' = 0
    /\ hot' = None
    /\ cold' = None
    /\ rendered' = {}
    /\ buttons' = {}
    /\ entered' = <<>>
    /\ data' = <<>>
    /\ writes' = <<>>
    /\ wresult' = "none"
    /\ notices' = 0
    /\ display_raised' = FALSE
    /\ UNCHANGED <<dbs, points, listings, creates, DEBUG, offsets, configfile, config>>

\* the page is opened or reloaded
Load ==
    /\ pc \in {"idle", "done", "crashed"}
    /\ StartRun("none")

\* the user clicks a Send button that the previous run put on the page
Press(room) ==
    /\ pc \in {"done", "crashed"}
    /\ room \in buttons
    /\ StartRun(room)

\* lines 43-54
Bootstrap ==
    /\ pc = "bootstrap"
    /\ listed' = dbs                                    \* line 50
    /\ listings' = listings + 1
    /\ IF DB_NAME \notin dbs
       THEN /\ dbs' = dbs \cup {DB_NAME}                \* line 51
            /\ creates' = creates + 1
            /\ created_now' = TRUE
       ELSE UNCHANGED <<dbs, creates, created_now>>
    /\ client' = <<[database |-> DB_NAME]>>             \* line 54
    /\ pc' = "fetch"
    /\ UNCHANGED <<idx, runs, pressed, points, responses, latest_readings, date,
                   time, hot, cold, rendered, buttons, entered, data, writes, wresult,
                   notices, display_raised, DEBUG, offsets, configfile, config>>

\* line 193
Fetch ==
    /\ pc = "fetch"
    /\ \E behaviours \in [RoomNames -> [MeterNames -> QueryBehaviours]] :
          LET got == get_latest_readings(client, behaviours)
          IN  /\ responses' = <<behaviours>>
              /\ IF got.raised
                 THEN /\ pc' = "crashed"
                      /\ UNCHANGED latest_readings
                 ELSE /\ pc' = "inputs"
                      /\ latest_readings' = <<got.value>>
    /\ UNCHANGED <<idx, runs, pressed, dbs, points, client, listings, creates,
                   created_now, listed, date, time, hot, cold, rendered, buttons,
                   entered, data, writes, wresult, notices, display_raised, DEBUG,
                   offsets, configfile, config>>

\* lines 195-207: the date and time widgets; the answers to the queries are
\* used up
Inputs ==
    /\ pc = "inputs"
    /\ \E d \in Dates, t \in Times : date' = d /\ time' = t
    /\ responses' = <<>>
    /\ idx' = 1
    /\ pc' = "render"
    /\ UNCHANGED <<runs, pressed, dbs, points, client, listings, creates,
                   created_now, listed, latest_readings, hot, cold, rendered,
                   buttons, entered, data, writes, wresult, notices, display_raised,
                   DEBUG, offsets, configfile, config>>

\* lines 211-242 for room ROOMS[idx]: header, the two metrics and the two
\* number inputs
RenderRoom ==
    /\ pc = "render"
    /\ LET room == ROOMS[idx]
           hot0 == latest_readings[1][room]["hot"]          \* line 215
           cold0 == latest_readings[1][room]["cold"]        \* line 229
       IN  IF Minus(hot0, latest_readings[1][room]["hot"]).raised     \* line 219
           THEN /\ hot' = hot0
                /\ pc' = "crashed"
                /\ UNCHANGED <<cold, rendered>>
           ELSE \E h \in number_input(hot0) :                          \* line 221
                /\ hot' = h
                /\ IF Minus(cold0, latest_readings[1][room]["cold"]).raised  \* line 233
                   THEN /\ cold' = cold0
                        /\ pc' = "crashed"
                        /\ UNCHANGED rendered
                   ELSE \E c \in number_input(cold0) :                 \* line 235
                        /\ cold' = c
                        /\ rendered' = rendered \cup {room}
                        /\ pc' = "button"
    /\ UNCHANGED <<idx, runs, pressed, dbs, points, client, listings, creates,
                   created_now, listed, responses, latest_readings, date, time,
                   buttons, entered, data, writes, wresult, notices, display_raised,
                   DEBUG, offsets, configfile, config>>

\* the end of the loop body: the next room, or the end of the script
NextRoom ==
    IF idx < Len(ROOMS)
    THEN idx' = idx + 1 /\ pc' = "render"
    ELSE idx' = idx /\ pc' = "done"

\* lines 243-245 in the run the button's click started
SendPressed ==
    /\ pc = "button"
    /\ pressed = ROOMS[idx]
    /\ buttons' = buttons \cup {ROOMS[idx]}
    /\ \E behaviour \in WriteBehaviours, st_fails \in BOOLEAN :
          LET reading == WaterReading(date, time, ROOMS[idx], hot, cold)   \* line 244
              out == write_to_database(reading, behaviour, st_fails)       \* line 245
          IN  /\ entered' = <<[hot |-> hot, cold |-> cold]>>
              /\ data' = reading
              /\ writes' = writes \o out.handed
              /\ wresult' = behaviour
              /\ notices' = notices + out.notices
              /\ display_raised' = out.display_raised
              /\ points' = IF behaviour = "ack" THEN store_write(points, reading)
                           ELSE points
              /\ IF out.raised
                 THEN pc' = "crashed" /\ idx' = idx
                 ELSE NextRoom
    /\ UNCHANGED <<runs, pressed, dbs, client, listings, creates, created_now,
                   listed, responses, latest_readings, date, time, hot, cold,
                   rendered, DEBUG, offsets, configfile, config>>

\* line 243 in any other run: st.button returns False
SendNotPressed ==
    /\ pc = "button"
    /\ pressed # ROOMS[idx]
    /\ buttons' = buttons \cup {ROOMS[idx]}
    /\ NextRoom
    /\ UNCHANGED <<runs, pressed, dbs, points, client, listings, creates,
                   created_now, listed, responses, latest_readings, date, time,
                   hot, cold, rendered, entered, data, writes, wresult, notices,
                   display_raised, DEBUG, offsets, configfile, config>>

Next ==
    \/ Load
    \/ \E room \in RoomNames : Press(room)
    \/ Bootstrap
    \/ Fetch
    \/ Inputs
    \/ RenderRoom
    \/ SendPressed
    \/ SendNotPressed

Spec == Init /\ [][Next]_vars

-----------------------------------------------------------------------------
(* The reading of one submission on its own: WaterReading built from any date,
   time, room and values, beside the calibration offsets a topology
   configures for the room's meters (MeterConfig.offset). *)

OffsetInit ==
    /\ pc = "reading"
    /\ Quiet
    /\ pressed \in RoomNames
    /\ dbs = {"_internal", DB_NAME}
    /\ points = [r \in RoomNames |-> [m \in MeterNames |-> None]]
    /\ date \in Dates
    /\ time \in Times
    /\ hot \in {Some(v) : v \in Values}
    /\ cold \in {Some(v) : v \in Values}
    /\ DEBUG = FALSE
    /\ offsets \in [RoomNames -> [MeterNames -> OffsetValues]]
    /\ configfile = NoFile
    /\ config = <<>>

\* line 244
Normalize ==
    /\ pc = "reading"
    /\ entered' = <<[hot |-> hot, cold |-> cold]>>
    /\ data' = WaterReading(date, time, pressed, hot, cold)
    /\ pc' = "read"
    /\ UNCHANGED <<idx, runs, pressed, dbs, points, client, listings, creates,
                   created_now, listed, responses, latest_readings, date, time,
                   hot, cold, rendered, buttons, writes, wresult, notices,
                   display_raised, DEBUG, offsets, configfile, config>>

OffsetNext == Normalize

OffsetSpec == OffsetInit /\ [][OffsetNext]_vars

-----------------------------------------------------------------------------
(* config.py.  A configuration source is its file suffix and the document
   yaml.safe_load makes of it; a value of a document is tagged with its type:
   missing (the key is not there), bad (a value the field's type does not
   accept), int, str, num, list. *)

Missing == [tag |-> "missing"]
Bad == [tag |-> "bad"]
IntV(v) == [tag |-> "int", v |-> v]
StrV(v) == [tag |-> "str", v |-> v]
NumV(v) == [tag |-> "num", v |-> v]
ListV(s) == [tag |-> "list", v |-> s]

Ok(v) == [ok |-> TRUE, value |-> v]
Err(e) == [ok |-> FALSE, error |-> e]

AllOk(s) == \A i \in 1 .. Len(s) : s[i].ok

\* class MeterConfig, lines 12-15
MeterConfig(doc) ==
    IF doc.id.tag # "int" THEN Err("ValidationError")                \* line 13
    ELSE IF doc.name.tag # "str" THEN Err("ValidationError")         \* line 14
    ELSE IF doc.offset.tag \notin {"missing", "num"} THEN Err("ValidationError")
    ELSE Ok([id |-> doc.id.v, name |-> doc.name.v,
             offset |-> IF doc.offset.tag = "missing" THEN 0 ELSE doc.offset.v])  \* line 15

\* class RoomConfig, lines 18-20
RoomConfig(doc) ==
    IF doc.name.tag # "str" THEN Err("ValidationError")              \* line 19
    ELSE IF doc.meters.tag # "list" THEN Err("ValidationError")      \* line 20
    ELSE LET ms == [i \in 1 .. Len(doc.meters.v) |-> MeterConfig(doc.meters.v[i])]
         IN  IF ~AllOk(ms) THEN Err("ValidationError")
             ELSE Ok([name |-> doc.name.v,
                      meters |-> [i \in 1 .. Len(ms) |-> ms[i].value]])

\* class RoomsConfig, lines 23-24
RoomsConfig(doc) ==
    IF doc.rooms.tag # "list" THEN Err("ValidationError")            \* line 24
    ELSE LET rs == [i \in 1 .. Len(doc.rooms.v) |-> RoomConfig(doc.rooms.v[i])]
         IN  IF ~AllOk(rs) THEN Err("ValidationError")
             ELSE Ok([rooms |-> [i \in 1 .. Len(rs) |-> rs[i].value]])

\* get_config, lines 27-46
get_config(file) ==
    IF file.suffix \notin {".yaml", ".yml"} THEN Err("ValueError")   \* lines 42-43
    ELSE IF file.doc.tag = "invalid" THEN Err("YAMLError")           \* line 45
    ELSE RoomsConfig(file.doc)                                       \* line 46

\* the configuration sources explored
SeqsUpTo(S, n) == UNION {[1 .. k -> S] : k \in 0 .. n}

MeterDocs ==
    {[id |-> IntV(1), name |-> StrV("hot"), offset |-> Missing],
     [id |-> IntV(2), name |-> StrV("cold"), offset |-> NumV(1)],
     [id |-> IntV(1), name |-> StrV("cold"), offset |-> Missing],
     [id |-> IntV(2), name |-> StrV("hot"), offset |-> Missing],
     [id |-> Missing, name |-> StrV("hot"), offset |-> Missing],
     [id |-> Bad, name |-> StrV("cold"), offset |-> Missing],
     [id |-> IntV(1), name |-> Missing, offset |-> NumV(1)],
     [id |-> IntV(2), name |-> StrV("cold"), offset |-> Bad]}

RoomDocs ==
    {[name |-> n, meters |-> m] :
        n \in {Missing, Bad, StrV("bathroom"), StrV("kitchen")},
        m \in {Missing, Bad} \cup {ListV(s) : s \in SeqsUpTo(MeterDocs, 2)}}

\* a second room of a document
SecondRoomDocs ==
    {[name |-> StrV("bathroom"),
      meters |-> ListV(<<[id |-> IntV(1), name |-> StrV("hot"), offset |-> Missing]>>)],
     [name |-> StrV("kitchen"),
      meters |-> ListV(<<[id |-> IntV(1), name |-> StrV("hot"), offset |-> NumV(1)],
                         [id |-> IntV(2), name |-> StrV("cold"), offset |-> Missing]>>)],
     [name |-> StrV("kitchen"), meters |-> Missing]}

RoomLists ==
    {<<>>} \cup {<<a>> : a \in RoomDocs}
           \cup {<<a, b>> : a \in RoomDocs, b \in SecondRoomDocs}

ConfigFiles ==
    {[suffix |-> x, doc |-> d] :
        x \in {".yaml", ".yml", ".json"},
        d \in {[tag |-> "invalid"]}
              \cup {[tag |-> "mapping", rooms |-> r] :
                       r \in {Missing, Bad} \cup {ListV(s) : s \in RoomLists}}}

ConfigInit ==
    /\ pc = "config"
    /\ Quiet
    /\ pressed = "none"
    /\ dbs = {"_internal", DB_NAME}
    /\ points = [r \in RoomNames |-> [m \in MeterNames |-> None]]
    /\ date = 0
    /\ time = 0
    /\ hot = None
    /\ cold = None
    /\ DEBUG = FALSE
    /\ offsets = DefaultOffsets
    /\ configfile \in ConfigFiles
    /\ config = <<>>

LoadConfig ==
    /\ pc = "config"
    /\ config' = <<get_config(configfile)>>
    /\ pc' = "configured"
    /\ UNCHANGED <<idx, runs, pressed, dbs, points, client, listings, creates,
                   created_now, listed, responses, latest_readings, date, time,
                   hot, cold, rendered, buttons, entered, data, writes, wresult,
                   notices, display_raised, DEBUG, offsets, configfile>>

ConfigNext == LoadConfig

ConfigSpec == ConfigInit /\ [][ConfigNext]_vars

-----------------------------------------------------------------------------
(* Properties *)

\* C1: a meter whose value handed to WaterReading is exactly 0 has the absent
\* value (None) as its field of the record, and no point handed to
\* write_points carries a field of value 0.
C1_ZeroIsAbsent ==
    /\ data # <<>> =>
          \A m \in MeterNames : entered[1][m] = Some(0) => data[1].fields[m] = None
    /\ \A i \in 1 .. Len(data), m \in MeterNames : data[i].fields[m] # Some(0)
    /\ \A i \in 1 .. Len(writes) : \A j \in 1 .. Len(writes[i]) :
          \A m \in MeterNames : writes[i][j].fields[m] # Some(0)

\* a submission with cold entered as 0 and hot as a number was handed to the store
C1_Witness ==
    /\ writes # <<>>
    /\ entered[1]["cold"] = Some(0)
    /\ entered[1]["hot"] = Some(1)
    /\ writes[1][1].fields["cold"] = None
    /\ writes[1][1].fields["hot"] = Some(1)

\* C2: when the fetch yields unknown (None) for some meter, the render still
\* completes without an error and reaches the Send button of every room.
C2_UnknownStillRenders ==
    (/\ latest_readings # <<>>
     /\ \E r \in RoomNames, m \in MeterNames : latest_readings[1][r][m] = None)
    => /\ pc # "crashed"
       /\ pc = "done" => buttons = RoomNames

\* C3: query_last never raises, whatever the store does: with a point it
\* returns the point's last value, in every other case None.
C3_QueryLastTotal ==
    responses # <<>> =>
       /\ pc # "crashed"
       /\ latest_readings # <<>>
       /\ \A r \in RoomNames, m \in MeterNames :
             latest_readings[1][r][m] =
                IF responses[1][r][m] = "answers" /\ points[r][m] # None
                THEN points[r][m] ELSE None

\* the four store behaviours at once: a value, no point, a timeout, a failure
C3_Witness ==
    /\ responses # <<>>
    /\ latest_readings # <<>>
    /\ responses[1]["bathroom"]["hot"] = "answers"
    /\ latest_readings[1]["bathroom"]["hot"] = Some(1)
    /\ responses[1]["bathroom"]["cold"] = "answers"
    /\ points["bathroom"]["cold"] = None
    /\ latest_readings[1]["bathroom"]["cold"] = None
    /\ responses[1]["kitchen"]["hot"] = "timeout"
    /\ points["kitchen"]["hot"] = Some(1)
    /\ latest_readings[1]["kitchen"]["hot"] = None
    /\ responses[1]["kitchen"]["cold"] = "connection"
    /\ latest_readings[1]["kitchen"]["cold"] = None

\* C4: write_to_database never raises past itself: after a submission the
\* script goes on, the remaining rooms are rendered and every Send button is
\* on the page for a resubmission.
C4_SubmissionNeverAborts ==
    writes # <<>> =>
       /\ pc # "crashed"
       /\ pc = "done" => rendered = RoomNames /\ buttons = RoomNames

Corrected(raw, offset) ==
    IF raw[1] + offset = 0 THEN None ELSE Some(raw[1] + offset)

\* C6: the value written for a meter is the entered value plus the meter's
\* configured offset, absent exactly when that sum is 0.
C6_OffsetApplied ==
    data # <<>> =>
       \A m \in MeterNames :
          data[1].fields[m] = Corrected(entered[1][m], offsets[data[1].measurement][m])

\* C7: within one submission the notice "Data logged." is shown exactly when
\* the store acknowledged the write.
C7_NoticeIffAck ==
    /\ notices \in {0, 1}
    /\ notices = 1 <=> wresult = "ack"

\* an acknowledged write whose notice was shown before the debug output failed
C7_Witness ==
    /\ wresult = "ack"
    /\ notices = 1
    /\ display_raised

\* C8: a write is issued only in a run started by a press of a Send button,
\* after the fetch; every press issues exactly one write of exactly one point
\* of the pressed room, without tags, with that room's meters as fields; a
\* run without a press issues none.
C8_OneWritePerPress ==
    /\ writes # <<>> =>
          /\ pressed \in RoomNames
          /\ latest_readings # <<>>
          /\ Len(writes) = 1
          /\ Len(writes[1]) = 1
          /\ writes[1][1].measurement = pressed
          /\ DOMAIN writes[1][1] = {"measurement", "time", "fields"}
          /\ DOMAIN writes[1][1].fields = MeterNames
    /\ pc \in {"done", "crashed"} =>
          Len(writes) = IF pressed = "none" THEN 0 ELSE 1

\* C9: before any query or write the databases are enumerated, the database
\* is created exactly when its name is not among them, and it is selected;
\* this happens once, not again on a later render or submission.
C9_BootstrapOnce ==
    /\ (responses # <<>> \/ latest_readings # <<>> \/ writes # <<>>) =>
          /\ client # <<>>
          /\ client[1].database = DB_NAME
          /\ DB_NAME \in dbs
    /\ client # <<>> => (created_now <=> DB_NAME \notin listed)
    /\ listings <= 1

\* the sources the specification accepts
UniqueBy(s, f(_)) == \A i, j \in 1 .. Len(s) : f(s[i]) = f(s[j]) => i = j
MeterId(m) == m.id.v
MeterName(m) == m.name.v
RoomName(r) == r.name.v

ValidMeter(m) ==
    m.id.tag = "int" /\ m.name.tag = "str" /\ m.offset.tag \in {"missing", "num"}

ValidRoom(r) ==
    /\ r.name.tag = "str"
    /\ r.meters.tag = "list"
    /\ Len(r.meters.v) > 0
    /\ \A i \in 1 .. Len(r.meters.v) : ValidMeter(r.meters.v[i])
    /\ UniqueBy(r.meters.v, MeterId)
    /\ UniqueBy(r.meters.v, MeterName)

ValidSource(file) ==
    /\ file.suffix \in {".yaml", ".yml"}
    /\ file.doc.tag = "mapping"
    /\ file.doc.rooms.tag = "list"
    /\ Len(file.doc.rooms.v) > 0
    /\ \A i \in 1 .. Len(file.doc.rooms.v) : ValidRoom(file.doc.rooms.v[i])
    /\ UniqueBy(file.doc.rooms.v, RoomName)

\* C10: get_config returns a topology for a valid source only (a recognised
\* suffix, non-empty rooms and meters, typed fields, unique room names and
\* unique meter ids and names per room) and fails otherwise; a meter without
\* an offset gets offset 0.
C10_ConfigValidated ==
    config # <<>> =>
       /\ config[1].ok <=> ValidSource(configfile)
       /\ config[1].ok =>
             \A i \in 1 .. Len(config[1].value.rooms) :
                \A j \in 1 .. Len(config[1].value.rooms[i].meters) :
                   configfile.doc.rooms.v[i].meters.v[j].offset.tag = "missing"
                      => config[1].value.rooms[i].meters[j].offset = 0

-----------------------------------------------------------------------------
(* What does hold of the submissions and of the bootstrap, beside the
   properties above *)

\* the step of the Send button never ends the script with an error
SendNeverCrashes == [][pc = "button" => pc' # "crashed"]_vars

\* a write is issued only in a run a press started, after the fetch, at most
\* once, as one point of the pressed room without tags
WriteOnlyOnPress ==
    writes # <<>> =>
       /\ pressed \in RoomNames
       /\ latest_readings # <<>>
       /\ Len(writes) = 1
       /\ Len(writes[1]) = 1
       /\ writes[1][1].measurement = pressed
       /\ DOMAIN writes[1][1] = {"measurement", "time", "fields"}

\* every run enumerates the databases once more, before its queries and writes
BootstrapEveryRun ==
    /\ pc \notin {"idle", "bootstrap"} => listings = runs
    /\ creates <= 1

=============================================================================
